---- MODULE Spec2Model ----
(***************************************************************************)
(* Model of film_contact_sheet_v2.py: grid selection, pagination, the      *)
(* index-to-cell mapping, and the control flow of main / draw_page.        *)
(*                                                                         *)
(* Lengths are IEEE-754 doubles, computed operation by operation as the    *)
(* code computes them (round to nearest, ties to even): main multiplies    *)
(* millimetre values by reportlab's mm, choose_grid_auto subtracts,        *)
(* multiplies and divides them.  Pixel data and page coordinates are not   *)
(* modelled: an image is its position in the list find_images returns, a   *)
(* draw is the cell the image lands in.                                    *)
(***************************************************************************)
EXTENDS Integers, Sequences, FiniteSets, TLC

(* ------------------------------ bounds -------------------------------- *)

MaxImages == 4      \* files found in the input directory (main)
MaxArg == 3         \* |value| of --rows / --cols (main)
MaxGridN == 36      \* item count handed to choose_grid_auto directly
MaxPagN == 7        \* item count handed to paginate directly
MaxPerPage == 4     \* capacity handed to paginate directly
MaxDim == 4         \* rows / cols handed to index_to_cell directly

(* ------------------------- program constants -------------------------- *)

MaxAutoRows == 15
MaxAutoCols == 30
A4_W == 210
A4_H == 297

Orders == {"row-left-right", "film-bottom-up"}
LabelModes == {"none", "index", "name"}
PageOrients == {"portrait", "landscape"}
DirStates == {"missing", "not_dir", "dir"}
MarginVals == {10, 67, 105}
GapVals == {2, 11}

(* ------------------------ Python integer helpers ----------------------- *)

Min(a, b) == IF a <= b THEN a ELSE b

\* a // b for b # 0 (rounds towards minus infinity)
py_floordiv(a, b) == a \div b

\* a % b for b # 0 (takes the sign of b)
py_mod(a, b) == a - b * py_floordiv(a, b)

py_ceil_div_floor(a, b) == py_floordiv(a, b)

\* math.ceil(a / b) for b # 0
py_ceil_div(a, b) == -py_floordiv(-a, b)

(* ---------------------- IEEE-754 double arithmetic --------------------- *)

\* Natural numbers of any size: little-endian sequences of limbs in
\* 0..LimbBase-1 without high zero limbs; <<>> is 0.
LimbBits == 15
LimbBase == 2^15
MantBits == 53

Max(a, b) == IF a >= b THEN a ELSE b

RECURSIVE BTrim(_)
BTrim(a) == IF Len(a) > 0 /\ a[Len(a)] = 0 THEN BTrim(SubSeq(a, 1, Len(a) - 1)) ELSE a

Limb(a, i) == IF i <= Len(a) THEN a[i] ELSE 0

RECURSIVE BFromNat(_)
BFromNat(x) == IF x = 0 THEN <<>> ELSE <<x % LimbBase>> \o BFromNat(x \div LimbBase)

RECURSIVE BAddC(_, _, _, _, _)
BAddC(a, b, i, carry, acc) ==
    IF i > Max(Len(a), Len(b))
    THEN IF carry > 0 THEN Append(acc, carry) ELSE acc
    ELSE LET s == Limb(a, i) + Limb(b, i) + carry
         IN  BAddC(a, b, i + 1, s \div LimbBase, Append(acc, s % LimbBase))

BAdd(a, b) == BAddC(a, b, 1, 0, <<>>)

\* a - b for a >= b
RECURSIVE BSubC(_, _, _, _, _)
BSubC(a, b, i, borrow, acc) ==
    IF i > Len(a) THEN BTrim(acc)
    ELSE LET d == Limb(a, i) - Limb(b, i) - borrow
         IN  IF d < 0 THEN BSubC(a, b, i + 1, 1, Append(acc, d + LimbBase))
             ELSE BSubC(a, b, i + 1, 0, Append(acc, d))

BSub(a, b) == BSubC(a, b, 1, 0, <<>>)

RECURSIVE BCmpAt(_, _, _)
BCmpAt(a, b, i) ==
    IF i = 0 THEN 0
    ELSE IF a[i] > b[i] THEN 1
    ELSE IF a[i] < b[i] THEN -1
    ELSE BCmpAt(a, b, i - 1)

\* -1, 0, 1 as a < b, a = b, a > b
BCmp(a, b) ==
    IF Len(a) > Len(b) THEN 1
    ELSE IF Len(a) < Len(b) THEN -1
    ELSE BCmpAt(a, b, Len(a))

\* a * k for 0 <= k < LimbBase
RECURSIVE BMulSmallC(_, _, _, _, _)
BMulSmallC(a, k, i, carry, acc) ==
    IF i > Len(a)
    THEN IF carry > 0 THEN Append(acc, carry) ELSE acc
    ELSE LET p == a[i] * k + carry
         IN  BMulSmallC(a, k, i + 1, p \div LimbBase, Append(acc, p % LimbBase))

BMulSmall(a, k) == BTrim(BMulSmallC(a, k, 1, 0, <<>>))

BShiftLimbs(a, j) == IF a = <<>> THEN <<>> ELSE [i \in 1..j |-> 0] \o a

RECURSIVE BMulAt(_, _, _, _)
BMulAt(a, b, i, acc) ==
    IF i > Len(b) THEN acc
    ELSE BMulAt(a, b, i + 1, BAdd(acc, BShiftLimbs(BMulSmall(a, b[i]), i - 1)))

BMul(a, b) == BMulAt(a, b, 1, <<>>)

\* a * 2^bits
BShl(a, bits) == BShiftLimbs(BMulSmall(a, 2^(bits % LimbBits)), bits \div LimbBits)

\* quotient and remainder of a by k, 0 < k < LimbBase
RECURSIVE BDivSmallAt(_, _, _, _, _)
BDivSmallAt(a, k, i, rem, acc) ==
    IF i = 0 THEN [q |-> BTrim(acc), r |-> rem]
    ELSE LET cur == rem * LimbBase + a[i]
         IN  BDivSmallAt(a, k, i - 1, cur % k, <<cur \div k>> \o acc)

BDivSmall(a, k) == BDivSmallAt(a, k, Len(a), 0, <<>>)

\* floor(a / 2^bits)
BShr(a, bits) ==
    LET drop == bits \div LimbBits
    IN  IF drop >= Len(a) THEN <<>>
        ELSE BDivSmall(SubSeq(a, drop + 1, Len(a)), 2^(bits % LimbBits)).q

RECURSIVE SmallBitLen(_)
SmallBitLen(x) == IF x = 0 THEN 0 ELSE 1 + SmallBitLen(x \div 2)

BBitLen(a) == IF a = <<>> THEN 0 ELSE LimbBits * (Len(a) - 1) + SmallBitLen(a[Len(a)])

BIsOdd(a) == a # <<>> /\ a[1] % 2 = 1

\* A finite double is [s, m, e] with value s * m * 2^e, s in {1, -1}, m a
\* natural below 2^53 (2^53 itself after a carry); zero has m = <<>>, s = 1.
\* Exponent range, infinities and NaN are not needed for page lengths.
FZero == [s |-> 1, m |-> <<>>, e |-> 0]

\* s * N * 2^e rounded to the nearest double, ties to even
FRound(s, N, e) ==
    IF N = <<>> THEN FZero
    ELSE IF BBitLen(N) <= MantBits THEN [s |-> s, m |-> N, e |-> e]
    ELSE LET sh == BBitLen(N) - MantBits
             q == BShr(N, sh)
             r == BSub(N, BShl(q, sh))
             c == BCmp(BShl(r, 1), BShl(<<1>>, sh))
             up == c = 1 \/ (c = 0 /\ BIsOdd(q))
         IN  [s |-> s, m |-> IF up THEN BAdd(q, <<1>>) ELSE q, e |-> e + sh]

\* float(i) for an int of small magnitude
FromInt(i) == IF i = 0 THEN FZero
              ELSE [s |-> IF i < 0 THEN -1 ELSE 1, m |-> BFromNat(IF i < 0 THEN -i ELSE i), e |-> 0]

FSign(a) == IF a.m = <<>> THEN 0 ELSE a.s

FNeg(a) == IF a.m = <<>> THEN a ELSE [a EXCEPT !.s = -a.s]

FMul(a, b) == FRound(a.s * b.s, BMul(a.m, b.m), a.e + b.e)

FAdd(a, b) ==
    IF a.m = <<>> THEN b
    ELSE IF b.m = <<>> THEN a
    ELSE LET e == Min(a.e, b.e)
             ma == BShl(a.m, a.e - e)
             mb == BShl(b.m, b.e - e)
             c == BCmp(ma, mb)
         IN  IF a.s = b.s THEN FRound(a.s, BAdd(ma, mb), e)
             ELSE IF c = 0 THEN FZero
             ELSE IF c = 1 THEN FRound(a.s, BSub(ma, mb), e)
             ELSE FRound(b.s, BSub(mb, ma), e)

FSub(a, b) == FAdd(a, FNeg(b))

\* a / k for an int 0 < k < LimbBase: the quotient is cut 76 bits below a's
\* last bit, with a sticky bit for the remainder, and rounded once
FDivInt(a, k) ==
    IF a.m = <<>> THEN FZero
    ELSE LET d == BDivSmall(BShl(a.m, 75), k)
             sticky == IF d.r # 0 THEN <<1>> ELSE <<>>
         IN  FRound(a.s, BAdd(BShl(d.q, 1), sticky), a.e - 76)

\* a > b
FGt(a, b) ==
    IF FSign(a) # FSign(b) THEN FSign(a) > FSign(b)
    ELSE IF FSign(a) = 0 THEN FALSE
    ELSE LET e == Min(a.e, b.e)
             c == BCmp(BShl(a.m, a.e - e), BShl(b.m, b.e - e))
         IN  IF a.s = 1 THEN c = 1 ELSE c = -1

\* a <= 0
FLeZero(a) == FSign(a) <= 0

\* reportlab.lib.units.mm = (72.0 / 2.54) * 0.1 = 1595763647493483 * 2^-49
mm == [s |-> 1, m |-> <<13675, 23221, 11610, 45>>, e |-> -49]

(* ------------------------------ paginate ------------------------------ *)

page_end_nomin(i, n, per_page) == i + per_page

\* end of the page starting at i
page_end(i, n, per_page) == Min(i + per_page, n)

\* range(0, n, per_page) from position i on, one (start, end) pair per value
RECURSIVE paginate_from(_, _, _, _)
paginate_from(i, n, per_page, acc) ==
    IF (per_page > 0 /\ i < n) \/ (per_page < 0 /\ i > n)
    THEN paginate_from(i + per_page, n, per_page,
                       Append(acc, <<i, page_end(i, n, per_page)>>))
    ELSE acc

\* range() raises ValueError on a zero step
paginate_raises(n, per_page) == per_page = 0

paginate(n, per_page) ==
    IF paginate_raises(n, per_page) THEN <<>> ELSE paginate_from(0, n, per_page, <<>>)

(* ---------------------------- index_to_cell --------------------------- *)

film_col_by_cols(idx, rows, cols) == py_floordiv(idx, cols)

\* column under "film-bottom-up"
film_col(idx, rows, cols) == py_floordiv(idx, rows)

index_to_cell(idx, rows, cols, order) ==
    IF order = "row-left-right"
    THEN <<py_floordiv(idx, cols), py_mod(idx, cols)>>
    ELSE IF order = "film-bottom-up"
    THEN <<(rows - 1) - py_mod(idx, rows), film_col(idx, rows, cols)>>
    ELSE <<py_floordiv(idx, cols), py_mod(idx, cols)>>

(* --------------------------- choose_grid_auto ------------------------- *)

\* (usable - gap * (k - 1)) / k
cell_size(usable, gap, k) == FDivInt(FSub(usable, FMul(gap, FromInt(k - 1))), k)

\* cell_w * cell_h
cell_area(cw, ch) == FMul(cw, ch)

area_always(a, b) == TRUE

\* area > best_area
area_gt(a, b) == FGt(a, b)

\* best_area = -1.0
NoArea == FromInt(-1)

RECURSIVE grid_search(_, _, _, _, _, _, _)
grid_search(rows, n, usable_w, usable_h, gap, best, best_area) ==
    IF rows > Min(MaxAutoRows, n) THEN best
    ELSE LET cols == py_ceil_div(n, rows)
             cell_w == cell_size(usable_w, gap, cols)
             cell_h == cell_size(usable_h, gap, rows)
             area == cell_area(cell_w, cell_h)
         IN  IF cols > MaxAutoCols
             THEN grid_search(rows + 1, n, usable_w, usable_h, gap, best, best_area)
             ELSE IF FLeZero(cell_w) \/ FLeZero(cell_h)
             THEN grid_search(rows + 1, n, usable_w, usable_h, gap, best, best_area)
             ELSE IF area_gt(area, best_area)
             THEN grid_search(rows + 1, n, usable_w, usable_h, gap, <<rows, cols>>, area)
             ELSE grid_search(rows + 1, n, usable_w, usable_h, gap, best, best_area)

\* the four lengths are doubles
choose_grid_auto(n, page_w_pt, page_h_pt, margin_pt, gap_pt) ==
    grid_search(1, n, FSub(page_w_pt, FMul(FromInt(2), margin_pt)),
                FSub(page_h_pt, FMul(FromInt(2), margin_pt)), gap_pt, <<1, n>>, NoArea)

(* ------------------------------- state -------------------------------- *)

VARIABLES
    pc,            \* position of main / draw_page
    dir_state,     \* what args.input_dir names
    n_files,       \* supported image files in the directory
    arg_rows,      \* --rows: [given, val]
    arg_cols,      \* --cols: [given, val]
    order,         \* --order
    page_orient,   \* --page-orient
    margin_mm,     \* --margin-mm
    gap_mm,        \* --gap-mm
    labels,        \* --labels
    images,        \* result of find_images
    rows, cols,    \* resolved grid
    per_page,
    pages,         \* result of paginate
    canvas,        \* canvas.Canvas created
    page_no,       \* 1-based position in pages of the page being drawn
    idx,           \* enumerate index inside draw_page
    open_handles,  \* images whose Image.open handle is not yet closed
    events,        \* calls made on Pillow / the canvas, in order
    saved,         \* number of c.save() calls
    exit_msg,      \* how the run ended abnormally, "" otherwise
    call,          \* last direct call of a pure function
    ret            \* its result

vars == <<pc, dir_state, n_files, arg_rows, arg_cols, order, page_orient, margin_mm,
          gap_mm, labels, images, rows, cols, per_page, pages, canvas, page_no, idx,
          open_handles, events, saved, exit_msg, call, ret>>

inputs == <<dir_state, n_files, arg_rows, arg_cols, order, page_orient, margin_mm,
            gap_mm, labels>>

NoneArg == [given |-> FALSE, val |-> 0]
ArgVals == {NoneArg} \cup {[given |-> TRUE, val |-> v] : v \in (-MaxArg)..MaxArg}

\* Python truthiness of an Optional[int]
truthy(a) == a.given /\ a.val # 0

NoCall == [fn |-> "none", n |-> 0, per_page |-> 0, idx |-> 0, rows |-> 0, cols |-> 0,
           order |-> "", page_w |-> 0, page_h |-> 0, margin |-> 0, gap |-> 0, scale |-> ""]
NoRet == [pages |-> <<>>, cell |-> <<0, 0>>, grid |-> <<0, 0>>, raised |-> FALSE]

Event(op, page, img, r, c) == [op |-> op, page |-> page, img |-> img, r |-> r, c |-> c]

(* ------------------------------- main --------------------------------- *)

\* the list find_images returns: one entry per file, in its fixed order
find_images(state, n) == IF state = "dir" THEN [i \in 1..n |-> i] ELSE <<>>

\* args.input_dir.exists() and args.input_dir.is_dir()
input_dir_ok(state) == state = "dir"

no_images_never(imgs) == FALSE

\* not images
no_images(imgs) == Len(imgs) = 0

\* reportlab.lib.pagesizes.A4 = (210*mm, 297*mm)
A4 == <<FMul(FromInt(A4_W), mm), FMul(FromInt(A4_H), mm)>>

\* rl_landscape(A4) / rl_portrait(A4)
page_size(orient) == IF orient = "landscape" THEN <<A4[2], A4[1]>> ELSE <<A4[1], A4[2]>>

resolve_grid(n, a_rows, a_cols, orient, margin, gap) ==
    IF truthy(a_rows) /\ truthy(a_cols) THEN <<a_rows.val, a_cols.val>>
    ELSE IF truthy(a_rows) /\ ~truthy(a_cols)
    THEN <<a_rows.val, py_ceil_div(n, a_rows.val)>>
    ELSE IF truthy(a_cols) /\ ~truthy(a_rows)
    THEN <<py_ceil_div(n, a_cols.val), a_cols.val>>
    ELSE choose_grid_auto(n, page_size(orient)[1], page_size(orient)[2],
                          FMul(FromInt(margin), mm), FMul(FromInt(gap), mm))

page_imgs_overlap(imgs, start, end) == SubSeq(imgs, IF start = 0 THEN 1 ELSE start, end)

\* images[start:end]
page_imgs(imgs, start, end) == SubSeq(imgs, start + 1, end)

pages_exhausted_early(k, pgs) == k = Len(pgs) \/ k = 1

\* the for loop over pages has no further item
pages_exhausted(k, pgs) == k = Len(pgs)

cur_imgs == page_imgs(images, pages[page_no][1], pages[page_no][2])

with_exit_leak(handles, img) == handles

\* leaving the with block closes the handle Image.open returned
with_exit(handles, img) == handles \ {img}

Init ==
    /\ pc = "main"
    /\ dir_state \in DirStates
    /\ n_files \in 0..MaxImages
    /\ arg_rows \in ArgVals
    /\ arg_cols \in ArgVals
    /\ order \in Orders
    /\ page_orient \in PageOrients
    /\ margin_mm \in MarginVals
    /\ gap_mm \in GapVals
    /\ labels \in LabelModes
    /\ images = <<>>
    /\ rows = 0 /\ cols = 0 /\ per_page = 0
    /\ pages = <<>>
    /\ canvas = FALSE
    /\ page_no = 0 /\ idx = 0
    /\ open_handles = {}
    /\ events = <<>>
    /\ saved = 0
    /\ exit_msg = ""
    /\ call = NoCall /\ ret = NoRet

\* main, input validation and find_images
CheckInput ==
    /\ pc = "main"
    /\ IF ~input_dir_ok(dir_state)
       THEN /\ pc' = "exit_error"
            /\ exit_msg' = "Input folder not found"
            /\ images' = images
       ELSE LET found == find_images(dir_state, n_files)
            IN  /\ images' = found
                /\ IF no_images(found)
                   THEN pc' = "exit_error" /\ exit_msg' = "No supported images found in the folder."
                   ELSE pc' = "grid" /\ exit_msg' = exit_msg
    /\ UNCHANGED <<inputs, rows, cols, per_page, pages, canvas, page_no, idx,
                   open_handles, events, saved, call, ret>>

\* main, page size, grid and pagination
ResolveGrid ==
    /\ pc = "grid"
    /\ LET g == resolve_grid(Len(images), arg_rows, arg_cols, page_orient, margin_mm, gap_mm)
           pp == g[1] * g[2]
       IN  /\ rows' = g[1]
           /\ cols' = g[2]
           /\ per_page' = pp
           /\ IF paginate_raises(Len(images), pp)
              THEN pc' = "crashed" /\ exit_msg' = "ValueError" /\ pages' = pages
              ELSE pc' = "canvas" /\ exit_msg' = exit_msg
                   /\ pages' = paginate(Len(images), pp)
    /\ UNCHANGED <<inputs, images, canvas, page_no, idx, open_handles, events, saved,
                   call, ret>>

\* main, canvas.Canvas(...)
CreateCanvas ==
    /\ pc = "canvas"
    /\ canvas' = TRUE
    /\ pc' = "pages"
    /\ UNCHANGED <<inputs, images, rows, cols, per_page, pages, page_no, idx,
                   open_handles, events, saved, exit_msg, call, ret>>

\* main, next iteration of the page loop: slice and enter draw_page
StartPage ==
    /\ pc = "pages"
    /\ ~pages_exhausted(page_no, pages)
    /\ page_no' = page_no + 1
    /\ idx' = 0
    /\ pc' = "image"
    /\ UNCHANGED <<inputs, images, rows, cols, per_page, pages, canvas,
                   open_handles, events, saved, exit_msg, call, ret>>

\* draw_page, next image: cell computed, Image.open succeeds
OpenImage ==
    /\ pc = "image"
    /\ idx < Len(cur_imgs)
    /\ open_handles' = open_handles \cup {cur_imgs[idx + 1]}
    /\ events' = Append(events, Event("open", page_no, cur_imgs[idx + 1], 0, 0))
    /\ pc' = "with_body"
    /\ UNCHANGED <<inputs, images, rows, cols, per_page, pages, canvas, page_no, idx,
                   saved, exit_msg, call, ret>>

\* draw_page, Image.open raises: no handle exists, the exception leaves main
OpenImageFails ==
    /\ pc = "image"
    /\ idx < Len(cur_imgs)
    /\ pc' = "crashed"
    /\ exit_msg' = "ImageError"
    /\ UNCHANGED <<inputs, images, rows, cols, per_page, pages, canvas, page_no, idx,
                   open_handles, events, saved, call, ret>>

\* draw_page, body of the with block up to drawInlineImage
DrawImage ==
    /\ pc = "with_body"
    /\ LET cell == index_to_cell(idx, rows, cols, order)
       IN  events' = Append(events, Event("draw", page_no, cur_imgs[idx + 1], cell[1], cell[2]))
    /\ pc' = "with_exit"
    /\ UNCHANGED <<inputs, images, rows, cols, per_page, pages, canvas, page_no, idx,
                   open_handles, saved, exit_msg, call, ret>>

\* draw_page, the body of the with block raises: the block is left, then
\* the exception leaves main
DrawImageFails ==
    /\ pc = "with_body"
    /\ open_handles' = with_exit(open_handles, cur_imgs[idx + 1])
    /\ events' = Append(events, Event("close", page_no, cur_imgs[idx + 1], 0, 0))
    /\ pc' = "crashed"
    /\ exit_msg' = "ImageError"
    /\ UNCHANGED <<inputs, images, rows, cols, per_page, pages, canvas, page_no, idx,
                   saved, call, ret>>

\* draw_page, normal end of the with block
CloseImage ==
    /\ pc = "with_exit"
    /\ open_handles' = with_exit(open_handles, cur_imgs[idx + 1])
    /\ events' = Append(events, Event("close", page_no, cur_imgs[idx + 1], 0, 0))
    /\ pc' = "caption"
    /\ UNCHANGED <<inputs, images, rows, cols, per_page, pages, canvas, page_no, idx,
                   saved, exit_msg, call, ret>>

\* draw_page, optional caption, then on to the next image
Caption ==
    /\ pc = "caption"
    /\ events' = IF labels # "none"
                 THEN Append(events, Event("caption", page_no, cur_imgs[idx + 1], 0, 0))
                 ELSE events
    /\ idx' = idx + 1
    /\ pc' = "image"
    /\ UNCHANGED <<inputs, images, rows, cols, per_page, pages, canvas, page_no,
                   open_handles, saved, exit_msg, call, ret>>

\* draw_page returns, main calls c.showPage()
ShowPage ==
    /\ pc = "image"
    /\ idx = Len(cur_imgs)
    /\ events' = Append(events, Event("showPage", page_no, 0, 0, 0))
    /\ pc' = "pages"
    /\ UNCHANGED <<inputs, images, rows, cols, per_page, pages, canvas, page_no, idx,
                   open_handles, saved, exit_msg, call, ret>>

\* main, page loop exhausted: c.save()
Save ==
    /\ pc = "pages"
    /\ pages_exhausted(page_no, pages)
    /\ events' = Append(events, Event("save", 0, 0, 0, 0))
    /\ saved' = saved + 1
    /\ pc' = "summary"
    /\ UNCHANGED <<inputs, images, rows, cols, per_page, pages, canvas, page_no, idx,
                   open_handles, exit_msg, call, ret>>

\* main, c.save() raises (the output file cannot be written)
SaveFails ==
    /\ pc = "pages"
    /\ pages_exhausted(page_no, pages)
    /\ pc' = "crashed"
    /\ exit_msg' = "OSError"
    /\ UNCHANGED <<inputs, images, rows, cols, per_page, pages, canvas, page_no, idx,
                   open_handles, events, saved, call, ret>>

\* main, the three summary lines are printed and main returns
PrintSummary ==
    /\ pc = "summary"
    /\ pc' = "done"
    /\ UNCHANGED <<inputs, images, rows, cols, per_page, pages, canvas, page_no, idx,
                   open_handles, events, saved, exit_msg, call, ret>>

\* main, stdout cannot encode the check mark of the first summary line
PrintSummaryFails ==
    /\ pc = "summary"
    /\ pc' = "crashed"
    /\ exit_msg' = "UnicodeEncodeError"
    /\ UNCHANGED <<inputs, images, rows, cols, per_page, pages, canvas, page_no, idx,
                   open_handles, events, saved, call, ret>>

Next ==
    \/ CheckInput
    \/ ResolveGrid
    \/ CreateCanvas
    \/ StartPage
    \/ OpenImage
    \/ OpenImageFails
    \/ DrawImage
    \/ DrawImageFails
    \/ CloseImage
    \/ Caption
    \/ ShowPage
    \/ Save
    \/ SaveFails
    \/ PrintSummary
    \/ PrintSummaryFails

Spec == Init /\ [][Next]_vars

TypeOK ==
    /\ pc \in {"idle", "returned", "main", "grid", "canvas", "pages", "image", "with_body", "with_exit",
               "caption", "summary", "done", "exit_error", "crashed"}
    /\ canvas \in BOOLEAN
    /\ saved \in 0..1

(* -------------------- the pure functions called directly --------------- *)

FnOrders == Orders \cup {"other"}
FnPageSizes == {<<A4_W, A4_H>>, <<A4_H, A4_W>>, <<297, 20>>}
\* <<margin, gap>>
FnSpacings == {<<10, 2>>, <<0, 1>>, <<20, 0>>, <<67, 11>>, <<91, 28>>, <<19, 2>>, <<61, 25>>}
\* "mm": lengths are millimetre values times mm, as main passes them;
\* "one": the values themselves
FnScales == {"mm", "one"}

\* the double a caller passes for the value v
to_len(v, scale) == IF scale = "mm" THEN FMul(FromInt(v), mm) ELSE FromInt(v)

InitFn ==
    /\ pc = "idle"
    /\ dir_state = "dir" /\ n_files = 0
    /\ arg_rows = NoneArg /\ arg_cols = NoneArg
    /\ order = "film-bottom-up" /\ page_orient = "portrait"
    /\ margin_mm = 10 /\ gap_mm = 2 /\ labels = "none"
    /\ images = <<>>
    /\ rows = 0 /\ cols = 0 /\ per_page = 0
    /\ pages = <<>>
    /\ canvas = FALSE
    /\ page_no = 0 /\ idx = 0
    /\ open_handles = {}
    /\ events = <<>>
    /\ saved = 0
    /\ exit_msg = ""
    /\ call = NoCall /\ ret = NoRet

fn_frame == <<inputs, images, rows, cols, per_page, pages, canvas, page_no, idx,
              open_handles, events, saved, exit_msg>>

CallPaginate ==
    /\ pc = "idle"
    /\ \E n \in 0..MaxPagN, pp \in (-2)..MaxPerPage :
          /\ call' = [NoCall EXCEPT !.fn = "paginate", !.n = n, !.per_page = pp]
          /\ ret' = [NoRet EXCEPT !.pages = paginate(n, pp),
                                  !.raised = paginate_raises(n, pp)]
    /\ pc' = "returned"
    /\ UNCHANGED fn_frame

CallIndexToCell ==
    /\ pc = "idle"
    /\ \E r \in 1..MaxDim, c \in 1..MaxDim, o \in FnOrders :
          \E i \in 0..(r * c - 1) :
             /\ call' = [NoCall EXCEPT !.fn = "index_to_cell", !.idx = i, !.rows = r,
                                       !.cols = c, !.order = o]
             /\ ret' = [NoRet EXCEPT !.cell = index_to_cell(i, r, c, o)]
    /\ pc' = "returned"
    /\ UNCHANGED fn_frame

CallChooseGridAuto ==
    /\ pc = "idle"
    /\ \E n \in 1..MaxGridN, ps \in FnPageSizes, sp \in FnSpacings, sc \in FnScales :
          /\ call' = [NoCall EXCEPT !.fn = "choose_grid_auto", !.n = n, !.page_w = ps[1],
                                    !.page_h = ps[2], !.margin = sp[1], !.gap = sp[2],
                                    !.scale = sc]
          /\ ret' = [NoRet EXCEPT !.grid = choose_grid_auto(n, to_len(ps[1], sc),
                                      to_len(ps[2], sc), to_len(sp[1], sc), to_len(sp[2], sc))]
    /\ pc' = "returned"
    /\ UNCHANGED fn_frame

NextFn ==
    \/ CallPaginate
    \/ CallIndexToCell
    \/ CallChooseGridAuto

SpecFn == InitFn /\ [][NextFn]_vars

(* ----------------------------- properties ----------------------------- *)

\* ceil(n / g) for n >= 1, g >= 1, stated without division
CeilOf(n, g) == CHOOSE c \in 1..n : c * g >= n /\ (c - 1) * g < n

IsDraw(e) == e.op = "draw"
IsOpen(e) == e.op = "open"
IsShow(e) == e.op = "showPage"
IsSave(e) == e.op = "save"
draws == SelectSeq(events, IsDraw)
opens == SelectSeq(events, IsOpen)
shows == SelectSeq(events, IsShow)

\* C1: for n >= 1 and per_page >= 1, paginate returns exactly ceil(n / per_page)
\* half-open ranges that start at 0, are contiguous, non-empty, of length
\* per_page except possibly the last, and end at n.
PaginateCoversExactly ==
    (call.fn = "paginate" /\ call.n >= 1 /\ call.per_page >= 1) =>
        LET p == ret.pages
            k == Len(ret.pages)
        IN  /\ ~ret.raised
            /\ k = CeilOf(call.n, call.per_page)
            /\ p[1][1] = 0
            /\ \A i \in 1..k : p[i][1] < p[i][2]
            /\ \A i \in 2..k : p[i][1] = p[i - 1][2]
            /\ \A i \in 1..(k - 1) : p[i][2] - p[i][1] = call.per_page
            /\ p[k][2] - p[k][1] <= call.per_page
            /\ p[k][2] = call.n

PaginateWitness ==
    /\ call.fn = "paginate" /\ call.n = 7 /\ call.per_page = 3
    /\ ret.pages = <<<<0, 3>>, <<3, 6>>, <<6, 7>>>>

\* C2: under "film-bottom-up", index_to_cell maps index i of [0, rows*cols) to
\* ((rows - 1) - (i % rows), i // rows), and the mapping is a bijection onto
\* {0..rows-1} x {0..cols-1}; for rows = 3, cols = 2 the indices 0..5 map to
\* (2,0),(1,0),(0,0),(2,1),(1,1),(0,1).
FilmExample == <<<<2, 0>>, <<1, 0>>, <<0, 0>>, <<2, 1>>, <<1, 1>>, <<0, 1>>>>

FilmBottomUpBijection ==
    (call.fn = "index_to_cell" /\ call.order = "film-bottom-up") =>
        LET R == call.rows
            C == call.cols
            f(j) == index_to_cell(j, R, C, "film-bottom-up")
        IN  /\ ret.cell = <<(R - 1) - (call.idx % R), call.idx \div R>>
            /\ ret.cell[1] \in 0..(R - 1) /\ ret.cell[2] \in 0..(C - 1)
            /\ \A j \in 0..(R * C - 1) : j # call.idx => f(j) # ret.cell
            /\ \A r \in 0..(R - 1), c \in 0..(C - 1) : \E j \in 0..(R * C - 1) : f(j) = <<r, c>>
            /\ (R = 3 /\ C = 2) => ret.cell = FilmExample[call.idx + 1]

FilmBottomUpWitness ==
    /\ call.fn = "index_to_cell" /\ call.order = "film-bottom-up"
    /\ call.rows = 3 /\ call.cols = 2 /\ call.idx = 5
    /\ ret.cell = <<0, 1>>

\* the candidates of the automatic search and their cell sizes, as doubles
CandRows(n) == 1..Min(15, n)
CallUsableW == FSub(to_len(call.page_w, call.scale), FMul(FromInt(2), to_len(call.margin, call.scale)))
CallUsableH == FSub(to_len(call.page_h, call.scale), FMul(FromInt(2), to_len(call.margin, call.scale)))
CallGap == to_len(call.gap, call.scale)
CandW(r) == FDivInt(FSub(CallUsableW, FMul(CallGap, FromInt(CeilOf(call.n, r) - 1))), CeilOf(call.n, r))
CandH(r) == FDivInt(FSub(CallUsableH, FMul(CallGap, FromInt(r - 1))), r)
CandArea(r) == FMul(CandW(r), CandH(r))
CandPositive(r) == FSign(CandArea(r)) = 1
CandSized(r) == FSign(CandW(r)) = 1 /\ FSign(CandH(r)) = 1
CandEligible(r) == CeilOf(call.n, r) <= 30 /\ CandSized(r)

\* C3 as stated: when some candidate rows in [1, min(15, n)] has positive cell
\* area, choose_grid_auto returns (rows, ceil(n / rows)) and no candidate rows
\* in [1, min(15, n)] has strictly greater cell area.
GridAutoMaxOverAllRows ==
    (call.fn = "choose_grid_auto" /\ \E r \in CandRows(call.n) : CandPositive(r)) =>
        LET best == CandArea(ret.grid[1])
        IN  /\ ret.grid[1] \in CandRows(call.n)
            /\ ret.grid[2] = CeilOf(call.n, ret.grid[1])
            /\ \A r \in CandRows(call.n) : ~FGt(CandArea(r), best)

\* C3 amended: with cell sizes and areas as the code computes them, when some
\* candidate rows in [1, min(15, n)] with cols = ceil(n / rows) <= 30 has
\* positive cell width and positive cell height, choose_grid_auto returns such
\* a candidate, and no other such candidate has strictly greater cell area.
GridAutoMaxOverEligible ==
    (call.fn = "choose_grid_auto" /\ \E r \in CandRows(call.n) : CandEligible(r)) =>
        LET best == CandArea(ret.grid[1])
        IN  /\ ret.grid[1] \in CandRows(call.n)
            /\ ret.grid[2] = CeilOf(call.n, ret.grid[1])
            /\ CandEligible(ret.grid[1])
            /\ \A r \in CandRows(call.n) : CandEligible(r) => ~FGt(CandArea(r), best)

\* the search skipped a candidate of more than 30 columns whose cells are
\* larger than those of the grid it returned
GridAutoWitness ==
    /\ call.fn = "choose_grid_auto"
    /\ CandEligible(ret.grid[1])
    /\ \E r \in CandRows(call.n) :
          /\ CeilOf(call.n, r) > 30
          /\ CandSized(r)
          /\ FGt(CandArea(r), CandArea(ret.grid[1]))

\* C4: in a complete run with rows >= 1 and cols >= 1, every image is drawn
\* exactly once, in input-list order across pages, and the images of one page
\* land in pairwise distinct cells inside the grid.
EveryImageOnceInCells ==
    (pc = "done" /\ rows >= 1 /\ cols >= 1) =>
        /\ Len(draws) = Len(images)
        /\ \A i \in 1..Len(draws) : draws[i].img = images[i]
        /\ \A i \in 1..Len(draws) :
              draws[i].r \in 0..(rows - 1) /\ draws[i].c \in 0..(cols - 1)
        /\ \A i, j \in 1..Len(draws) :
              i < j => /\ draws[i].page <= draws[j].page
                       /\ draws[i].page = draws[j].page =>
                             <<draws[i].r, draws[i].c>> # <<draws[j].r, draws[j].c>>

EveryImageOnceWitness ==
    /\ pc = "done" /\ rows = 1 /\ cols = 3 /\ order = "film-bottom-up"
    /\ Len(images) = 4 /\ Len(pages) = 2 /\ Len(draws) = 4

\* C5: with only --rows g (g >= 1) the grid is (g, ceil(n / g)); with only
\* --cols g it is (ceil(n / g), g); with both given (each >= 1) they are used
\* as they are.
ExplicitGridResolution ==
    (pc \notin {"main", "grid", "exit_error"}) =>
        /\ (arg_rows.given /\ arg_rows.val >= 1 /\ ~arg_cols.given) =>
              rows = arg_rows.val /\ cols = CeilOf(Len(images), arg_rows.val)
        /\ (arg_cols.given /\ arg_cols.val >= 1 /\ ~arg_rows.given) =>
              cols = arg_cols.val /\ rows = CeilOf(Len(images), arg_cols.val)
        /\ (arg_rows.given /\ arg_rows.val >= 1 /\ arg_cols.given /\ arg_cols.val >= 1) =>
              rows = arg_rows.val /\ cols = arg_cols.val

ExplicitGridWitness ==
    /\ pc = "canvas" /\ arg_rows.given /\ arg_rows.val = 3 /\ ~arg_cols.given
    /\ Len(images) = 4 /\ rows = 3 /\ cols = 2

\* C6: a missing input directory, a path that is not a directory, or a
\* directory without supported images ends main with SystemExit and a message;
\* no canvas is created, nothing is drawn or finalized, nothing is saved.
InputErrorNoOutput ==
    (pc # "main" /\ (dir_state # "dir" \/ n_files = 0)) =>
        /\ pc = "exit_error" /\ exit_msg # ""
        /\ ~canvas /\ events = <<>> /\ saved = 0

InputErrorWitness ==
    /\ pc = "exit_error" /\ dir_state = "dir" /\ n_files = 0
    /\ exit_msg = "No supported images found in the folder."

\* C7: in a run that completes, pages are finalized one at a time in
\* increasing order, each exactly once and after all of its images were drawn,
\* and the document is saved exactly once, as the last call.
PagesInOrderThenSave ==
    /\ saved <= 1
    /\ saved = 1 => pc \in {"summary", "done", "crashed"} /\ IsSave(events[Len(events)])
    /\ pc = "done" =>
        /\ saved = 1
        /\ Len(SelectSeq(events, IsSave)) = 1
        /\ IsSave(events[Len(events)])
        /\ Len(shows) = Len(pages)
        /\ \A k \in 1..Len(shows) : shows[k].page = k
        /\ \A k \in 1..Len(pages) :
              Cardinality({i \in 1..Len(events) : IsDraw(events[i]) /\ events[i].page = k})
                  = pages[k][2] - pages[k][1]
        /\ \A i, j \in 1..Len(events) :
              (IsDraw(events[i]) /\ IsShow(events[j])) =>
                  (i < j <=> events[i].page <= events[j].page)

PagesInOrderWitness ==
    /\ pc = "done" /\ Len(pages) = 4 /\ Len(shows) = 4 /\ Len(draws) = 4

\* C8: inside draw_page at most one decode handle is open; images are opened
\* in index order, each handle is closed before the next image is opened, and
\* a failure while an image is processed closes its handle before it ends the
\* run.
OneHandleAtATime ==
    /\ Cardinality(open_handles) <= 1
    /\ \A i \in 1..Len(opens) : opens[i].img = images[i]
    /\ \A i, j \in 1..Len(events) :
          (i < j /\ IsOpen(events[i]) /\ IsOpen(events[j])) =>
              \E k \in (i + 1)..(j - 1) :
                  events[k].op = "close" /\ events[k].img = events[i].img
    /\ pc \in {"crashed", "done", "pages"} => open_handles = {}

OneHandleWitness ==
    /\ pc = "crashed" /\ exit_msg = "ImageError"
    /\ Len(opens) = 2 /\ open_handles = {}
    /\ events[Len(events)].op = "close" /\ events[Len(events)].img = 2

\* C9: whenever main reaches pagination, per_page = rows * cols >= 1, for every
\* combination of --rows and --cols (absent, zero, negative or positive).
PerPagePositive ==
    (pc \notin {"main", "grid", "exit_error"}) => per_page >= 1

\* C10: an automatically chosen grid has capacity >= n and gives exactly one
\* page; more than one page arises only when both --rows and --cols are given.
MultiPageOnlyWhenBothGiven ==
    (pc \notin {"main", "grid", "exit_error", "crashed"}) =>
        /\ (~arg_rows.given /\ ~arg_cols.given) =>
              rows * cols >= Len(images) /\ Len(pages) = 1
        /\ Len(pages) > 1 => (arg_rows.given /\ arg_cols.given)

====
